---- MODULE Spec2Model ----
(***************************************************************************)
(* Model of src/src/main.rs (blockbracker): the scene built by setup and   *)
(* the per-frame system move_player_system.                                *)
(*                                                                         *)
(* Numbers.  The program computes in f32, and so does the model: an f32 is *)
(* the record [m |-> mantissa, e |-> exponent] of value m * 2^e, with      *)
(* Hidden <= |m| < Limit (24 significant bits), or [m |-> 0, e |-> 0] for  *)
(* zero.  FAdd, FSub, FMul, FDiv and FSqrt return the exact result rounded *)
(* to the nearest f32, ties to even, as the IEEE 754 operations do.  The   *)
(* magnitudes of the program stay far from overflow and from subnormals,   *)
(* and the sign of zero is never observed, so neither is modelled.         *)
(* Frame times are counted in 1/DtDen s.                                   *)
(***************************************************************************)
EXTENDS Integers, FiniteSets, Sequences, TLC

VARIABLES translation, rotation, window, panicked, clamped, margin, bounds,
          last, turned, ticks

vars ==
    <<translation, rotation, window, panicked, clamped, margin, bounds, last,
      turned, ticks>>

---------------------------------------------------------------------------
(* Bounds of the model *)

\* number of frames (runs of move_player_system) explored
MaxTicks == 1

\* largest frame time explored, in units of 1/DtDen seconds
MaxDt == 2

---------------------------------------------------------------------------
(* f32 arithmetic *)

\* 2^23: the smallest mantissa of a normal f32
Hidden == 8388608

\* 2^24: the mantissa has 24 bits
Limit == 16777216

\* frame times are multiples of 1/DtDen s
DtDen == 2

FZero == [m |-> 0, e |-> 0]

Abs(a) == IF a < 0 THEN -a ELSE a

Signed(neg, n) == IF neg THEN -n ELSE n

RECURSIVE ExcessBits(_, _)
\* the number of bits n >= Limit has beyond 24, counting up from s
ExcessBits(n, s) == IF n < Limit * 2^s THEN s ELSE ExcessBits(n, s + 1)

RECURSIVE MissingBits(_, _)
\* the number of bits 0 < n < Limit lacks to 24, counting up from s
MissingBits(n, s) == IF n * 2^s >= Hidden THEN s ELSE MissingBits(n, s + 1)

\* n * 2^e (plus a fraction of 2^e when sticky) cut by s >= 1 bits and rounded
\* to nearest, ties to even
RoundShift(neg, n, e, sticky, s) ==
    LET q == n \div 2^s
        r == n % 2^s
        half == 2^(s - 1)
        up == r > half \/ (r = half /\ (sticky \/ q % 2 = 1))
        q2 == IF up THEN q + 1 ELSE q
    IN IF q2 = Limit THEN [m |-> Signed(neg, Hidden), e |-> e + s + 1]
       ELSE [m |-> Signed(neg, q2), e |-> e + s]

\* n * 2^e with n short of 24 bits by u: exact
Widen(neg, n, e, u) == [m |-> Signed(neg, n * 2^u), e |-> e - u]

\* the f32 nearest to (-1)^neg * (n + fraction) * 2^e, 0 <= n < 2^30; the
\* fraction is non-zero exactly when sticky, and then n has at least 26 bits
Round(neg, n, e, sticky) ==
    IF n = 0 THEN FZero
    ELSE IF n < Limit THEN Widen(neg, n, e, MissingBits(n, 0))
    ELSE RoundShift(neg, n, e, sticky, ExcessBits(n, 1))

\* an integer literal as f32
FromInt(n) == Round(n < 0, Abs(n), 0, FALSE)

FNeg(a) == [m |-> -a.m, e |-> a.e]

\* f32::abs
FAbs(a) == [m |-> Abs(a.m), e |-> a.e]

\* the 48-bit product of the mantissas a1 * 2^12 + a0 and b1 * 2^12 + b0, in
\* two 24-bit halves, rounded
MulParts(neg, a1, a0, b1, b0, e) ==
    LET mid == a1 * b0 + a0 * b1
        low == (mid % 4096) * 4096 + a0 * b0
        high == a1 * b1 + mid \div 4096 + low \div Limit
        rest == low % Limit
    IN Round(neg, high * 4 + rest \div 4194304, e + 22, rest % 4194304 # 0)

\* f32 * f32
FMul(a, b) ==
    IF a.m = 0 \/ b.m = 0 THEN FZero
    ELSE MulParts((a.m < 0) # (b.m < 0),
                  Abs(a.m) \div 4096, Abs(a.m) % 4096,
                  Abs(b.m) \div 4096, Abs(b.m) % 4096, a.e + b.e)

\* hi + lo where hi has the larger exponent, by d <= 26: three guard bits,
\* the bits of lo shifted out jammed into the last one
AddAligned(hi, lo, d) ==
    LET wide == Abs(lo.m) * 8
        b == wide \div 2^d
        jam == IF wide % 2^d # 0 /\ b % 2 = 0 THEN b + 1 ELSE b
        s == hi.m * 8 + Signed(lo.m < 0, jam)
    IN Round(s < 0, Abs(s), hi.e - 3, FALSE)

\* f32 + f32
FAdd(a, b) ==
    IF a.m = 0 THEN b
    ELSE IF b.m = 0 THEN a
    ELSE IF a.e >= b.e
         THEN IF a.e - b.e > 26 THEN a ELSE AddAligned(a, b, a.e - b.e)
         ELSE IF b.e - a.e > 26 THEN b ELSE AddAligned(b, a, b.e - a.e)

\* f32 - f32
FSub(a, b) == FAdd(a, FNeg(b))

RECURSIVE DivDigits(_, _, _, _)
\* long division: k more bits of the quotient q of remainder r by d
DivDigits(q, r, d, k) ==
    IF k = 0 THEN [q |-> q, r |-> r]
    ELSE IF k >= 6
         THEN DivDigits(q * 64 + (r * 64) \div d, (r * 64) % d, d, k - 6)
         ELSE DivDigits(q * 2^k + (r * 2^k) \div d, (r * 2^k) % d, d, 0)

\* the digits qr of a quotient or root, rounded
DigitsRound(neg, qr, e) == Round(neg, qr.q, e, qr.r # 0)

\* f32 / f32 (b is not zero)
FDiv(a, b) ==
    IF a.m = 0 THEN FZero
    ELSE DigitsRound((a.m < 0) # (b.m < 0),
                     DivDigits(Abs(a.m) \div Abs(b.m), Abs(a.m) % Abs(b.m),
                               Abs(b.m), 26),
                     a.e - b.e - 26)

RECURSIVE IntSqrt(_, _)
\* Newton's iteration for the integer square root of n > 0, from a guess
\* x >= sqrt(n): the largest r with r * r <= n
IntSqrt(n, x) ==
    LET y == (x + n \div x) \div 2
    IN IF y >= x THEN x ELSE IntSqrt(n, y)

RECURSIVE SqrtDigits(_, _, _)
\* digit-by-digit square root: k more bits of the root, rem the remainder
SqrtDigits(root, rem, k) ==
    IF k = 0 THEN [q |-> root, r |-> rem]
    ELSE IF rem * 4 >= root * 4 + 1
         THEN SqrtDigits(root * 2 + 1, rem * 4 - (root * 4 + 1), k - 1)
         ELSE SqrtDigits(root * 2, rem * 4, k - 1)

\* the root of n * 2^(2 * e + 28) from the integer root r of n
SqrtFrom(n, r, e) == DigitsRound(FALSE, SqrtDigits(r, n - r * r, 14), e)

\* f32::sqrt (a >= 0)
FSqrt(a) ==
    IF a.m = 0 THEN FZero
    ELSE IF a.e % 2 = 0
         THEN SqrtFrom(a.m, IntSqrt(a.m, 4096), (a.e - 28) \div 2)
         ELSE SqrtFrom(2 * a.m, IntSqrt(2 * a.m, 5793), (a.e - 29) \div 2)

\* f32 < f32
FLt(a, b) ==
    IF a.m <= 0 /\ b.m > 0 THEN a.m < b.m
    ELSE IF a.m < 0 /\ b.m = 0 THEN TRUE
    ELSE IF a.m >= 0 /\ b.m <= 0 THEN FALSE
    ELSE IF a.m > 0 THEN a.e < b.e \/ (a.e = b.e /\ a.m < b.m)
    ELSE a.e > b.e \/ (a.e = b.e /\ a.m < b.m)

\* f32 <= f32
FLe(a, b) == ~FLt(b, a)

---------------------------------------------------------------------------
(* Constants of the program *)

Action == {"LEFT", "RIGHT", "UP", "DOWN", "RLEFT", "RRIGHT"}

\* the literals 1.0, 2.0 and 0.5
One == FromInt(1)

Two == FromInt(2)

Half == FDiv(One, Two)

\* std::f32::consts::PI = 3.14159274...
PI == [m |-> 13176795, e |-> -22]

player_half_size == FromInt(25)

speed == FromInt(200)

rotation_speed == FDiv(PI, Two)

\* Window::default() resolution, which main keeps (..default())
DefaultWindow == [width |-> 1280, height |-> 720]

\* sizes the window can be given while the program runs: the default, a small
\* square, a square of the player's size, a window too low for the player,
\* and a minimised window
WindowSizes ==
    { [width |-> 1280, height |-> 720], [width |-> 200, height |-> 200],
      [width |-> 50, height |-> 50], [width |-> 200, height |-> 40],
      [width |-> 0, height |-> 0] }

\* every combination of held actions
Flags == SUBSET Action

\* frame times, in 1/DtDen seconds
Dts == 0 .. MaxDt

\* time.delta_seconds() of a frame of dt / DtDen seconds
delta_seconds(dt) == FDiv(FromInt(dt), FromInt(DtDen))

\* the obstacles spawned by setup: Transform::from_xyz(i * 150.0, 100.0, 0.0)
Obstacles ==
    { [x |-> FMul(FromInt(i), FromInt(150)), y |-> FromInt(100)] : i \in -2 .. 2 }

\* half the side of the obstacle mesh, Rectangle::new(50.0, 50.0)
obstacle_half_size == FromInt(25)

---------------------------------------------------------------------------
(* f32::sin_cos and the glam operations *)

\* f32::sin_cos on the half angles of the turns by multiples of pi/8: the
\* argument (rotation_speed * (j / 4)) * 0.5 for j = 0..16, its sine and its
\* cosine
SinCosTable ==
    << [angle |-> [m |-> 0, e |-> 0],
        sin |-> [m |-> 0, e |-> 0],
        cos |-> [m |-> 8388608, e |-> -23]],
       [angle |-> [m |-> 13176795, e |-> -26],
        sin |-> [m |-> 13092290, e |-> -26],
        cos |-> [m |-> 16454846, e |-> -24]],
       [angle |-> [m |-> 13176795, e |-> -25],
        sin |-> [m |-> 12840726, e |-> -25],
        cos |-> [m |-> 15500126, e |-> -24]],
       [angle |-> [m |-> 9882596, e |-> -24],
        sin |-> [m |-> 9320922, e |-> -24],
        cos |-> [m |-> 13949745, e |-> -24]],
       [angle |-> [m |-> 13176795, e |-> -24],
        sin |-> [m |-> 11863283, e |-> -24],
        cos |-> [m |-> 11863283, e |-> -24]],
       [angle |-> [m |-> 16470994, e |-> -24],
        sin |-> [m |-> 13949746, e |-> -24],
        cos |-> [m |-> 9320921, e |-> -24]],
       [angle |-> [m |-> 9882596, e |-> -23],
        sin |-> [m |-> 15500126, e |-> -24],
        cos |-> [m |-> 12840725, e |-> -25]],
       [angle |-> [m |-> 11529696, e |-> -23],
        sin |-> [m |-> 16454847, e |-> -24],
        cos |-> [m |-> 13092284, e |-> -26]],
       [angle |-> [m |-> 13176795, e |-> -23],
        sin |-> [m |-> 8388608, e |-> -23],
        cos |-> [m |-> -12303662, e |-> -48]],
       [angle |-> [m |-> 14823894, e |-> -23],
        sin |-> [m |-> 16454846, e |-> -24],
        cos |-> [m |-> -13092290, e |-> -26]],
       [angle |-> [m |-> 16470994, e |-> -23],
        sin |-> [m |-> 15500126, e |-> -24],
        cos |-> [m |-> -12840728, e |-> -25]],
       [angle |-> [m |-> 9059047, e |-> -22],
        sin |-> [m |-> 13949744, e |-> -24],
        cos |-> [m |-> -9320924, e |-> -24]],
       [angle |-> [m |-> 9882596, e |-> -22],
        sin |-> [m |-> 11863283, e |-> -24],
        cos |-> [m |-> -11863283, e |-> -24]],
       [angle |-> [m |-> 10706146, e |-> -22],
        sin |-> [m |-> 9320921, e |-> -24],
        cos |-> [m |-> -13949746, e |-> -24]],
       [angle |-> [m |-> 11529696, e |-> -22],
        sin |-> [m |-> 12840720, e |-> -25],
        cos |-> [m |-> -15500128, e |-> -24]],
       [angle |-> [m |-> 12353245, e |-> -22],
        sin |-> [m |-> 13092289, e |-> -26],
        cos |-> [m |-> -16454847, e |-> -24]],
       [angle |-> [m |-> 13176795, e |-> -22],
        sin |-> [m |-> -12303662, e |-> -47],
        cos |-> [m |-> -8388608, e |-> -23]] >>

\* the row of the table for the argument a >= 0
SinCosRow(a) == SinCosTable[CHOOSE i \in DOMAIN SinCosTable : SinCosTable[i].angle = a]

\* f32::sin_cos: sine is odd, cosine is even
SinCos(a) ==
    LET row == SinCosRow(FAbs(a))
    IN [sin |-> IF a.m < 0 THEN FNeg(row.sin) ELSE row.sin, cos |-> row.cos]

\* Vec3::ZERO
ZERO == [x |-> FZero, y |-> FZero, z |-> FZero]

\* Vec3::Y
UnitY == [x |-> FZero, y |-> One, z |-> FZero]

\* Quat::IDENTITY
IDENTITY == [x |-> FZero, y |-> FZero, z |-> FZero, w |-> One]

\* Vec3 + Vec3
VAdd(a, b) == [x |-> FAdd(a.x, b.x), y |-> FAdd(a.y, b.y), z |-> FAdd(a.z, b.z)]

\* Vec3 * f32
VScale(v, s) == [x |-> FMul(v.x, s), y |-> FMul(v.y, s), z |-> FMul(v.z, s)]

\* Vec3::abs
VAbs(v) == [x |-> FAbs(v.x), y |-> FAbs(v.y), z |-> FAbs(v.z)]

\* Vec3::dot
Dot(a, b) == FAdd(FAdd(FMul(a.x, b.x), FMul(a.y, b.y)), FMul(a.z, b.z))

\* Vec3::length
Length(v) == FSqrt(Dot(v, v))

\* Normalize with the normalisation left out: the vector as it is
NormalizeSkipped(v) == v

\* Vec3::normalize: the vector times the reciprocal of its length
Normalize(v) == VScale(v, FDiv(One, Length(v)))

\* FromRotationZ with the wrong axis: Quat::from_rotation_x
FromRotationX(angle) ==
    LET sc == SinCos(FMul(angle, Half))
    IN [x |-> sc.sin, y |-> FZero, z |-> FZero, w |-> sc.cos]

\* Quat::from_rotation_z(angle): sin_cos(angle * 0.5)
FromRotationZ(angle) ==
    LET sc == SinCos(FMul(angle, Half))
    IN [x |-> FZero, y |-> FZero, z |-> sc.sin, w |-> sc.cos]

\* Quat * Quat (the Hamilton product)
QuatMul(a, b) ==
    [x |-> FSub(FAdd(FAdd(FMul(a.w, b.x), FMul(a.x, b.w)), FMul(a.y, b.z)),
                FMul(a.z, b.y)),
     y |-> FAdd(FAdd(FSub(FMul(a.w, b.y), FMul(a.x, b.z)), FMul(a.y, b.w)),
                FMul(a.z, b.x)),
     z |-> FAdd(FSub(FAdd(FMul(a.w, b.z), FMul(a.x, b.y)), FMul(a.y, b.x)),
                FMul(a.z, b.w)),
     w |-> FSub(FSub(FSub(FMul(a.w, b.w), FMul(a.x, b.x)), FMul(a.y, b.y)),
                FMul(a.z, b.z))]

\* the columns of Mat3::from_quat from the nine products of the components
Mat3Columns(xx, xy, xz, yy, yz, zz, wx, wy, wz) ==
    [x_axis |-> [x |-> FSub(One, FAdd(yy, zz)), y |-> FAdd(xy, wz), z |-> FSub(xz, wy)],
     y_axis |-> [x |-> FSub(xy, wz), y |-> FSub(One, FAdd(xx, zz)), z |-> FAdd(yz, wx)],
     z_axis |-> [x |-> FAdd(xz, wy), y |-> FSub(yz, wx), z |-> FSub(One, FAdd(xx, yy))]]

\* the products of Mat3::from_quat from the doubled components x2, y2, z2
Mat3Products(q, x2, y2, z2) ==
    Mat3Columns(FMul(q.x, x2), FMul(q.x, y2), FMul(q.x, z2),
                FMul(q.y, y2), FMul(q.y, z2), FMul(q.z, z2),
                FMul(q.w, x2), FMul(q.w, y2), FMul(q.w, z2))

\* Mat3::from_quat
Mat3FromQuat(q) == Mat3Products(q, FAdd(q.x, q.x), FAdd(q.y, q.y), FAdd(q.z, q.z))

---------------------------------------------------------------------------
(* move_player_system, step by step *)

\* action_state.pressed(&a)
Pressed(f, a) == a \in f

\* lines 146-157 from the direction d0: += and -= on its components, in the
\* order UP, DOWN, LEFT, RIGHT
Compose(d0, f) ==
    LET d1 == IF Pressed(f, "UP") THEN [d0 EXCEPT !.y = FAdd(@, One)] ELSE d0
        d2 == IF Pressed(f, "DOWN") THEN [d1 EXCEPT !.y = FSub(@, One)] ELSE d1
        d3 == IF Pressed(f, "LEFT") THEN [d2 EXCEPT !.x = FSub(@, One)] ELSE d2
    IN IF Pressed(f, "RIGHT") THEN [d3 EXCEPT !.x = FAdd(@, One)] ELSE d3

\* RawDirection starting from Vec3::Y instead of Vec3::ZERO
RawDirectionFromY(f) == Compose(UnitY, f)

\* RawDirection with each axis assigned in an if / else-if chain, so that the
\* first action of a pair wins instead of the two cancelling
RawDirectionFirstWins(f) ==
    [x |-> IF Pressed(f, "LEFT") THEN FNeg(One)
           ELSE IF Pressed(f, "RIGHT") THEN One ELSE FZero,
     y |-> IF Pressed(f, "UP") THEN One
           ELSE IF Pressed(f, "DOWN") THEN FNeg(One) ELSE FZero,
     z |-> FZero]

\* lines 145-158: the direction composed from the four linear actions
RawDirection(f) == Compose(ZERO, f)

\* lines 160-163: normalised when its length is positive
Direction(f) ==
    LET direction == RawDirection(f)
    IN IF FLt(FZero, Length(direction)) THEN Normalize(direction) ELSE direction

\* Displacement without the frame time: direction * speed, a second's worth
DisplacementPerFrame(f, dt) == VScale(Direction(f), speed)

\* line 166: direction * speed * time.delta_seconds()
Displacement(f, dt) == VScale(VScale(Direction(f), speed), delta_seconds(dt))

RECURSIVE Tabulated(_, _)
\* the function fn on the finite set S, as an explicit table
Tabulated(fn, S) ==
    IF S = {} THEN <<>>
    ELSE LET x == CHOOSE y \in S : TRUE
         IN (x :> fn[x]) @@ Tabulated(fn, S \ {x})

\* the linear and the rotation actions
MoveActions == {"UP", "DOWN", "LEFT", "RIGHT"}

TurnActions == {"RLEFT", "RRIGHT"}

\* Displacement, tabulated over the frame times and the held linear actions
\* (it reads no state, and no rotation action)
DisplacementOf ==
    Tabulated([dt \in Dts |->
                  Tabulated([f \in SUBSET MoveActions |-> Displacement(f, dt)],
                            SUBSET MoveActions)],
              Dts)

\* line 166: transform.translation += ...
Translate(t, f, dt) == VAdd(t, DisplacementOf[dt][f \cap MoveActions])

\* line 171: rotation_speed * time.delta_seconds()
TurnAngle(dt) == FMul(rotation_speed, delta_seconds(dt))

\* lines 169-172: the RLEFT branch
RotateLeft(q, f, dt) ==
    IF Pressed(f, "RLEFT") THEN QuatMul(q, FromRotationZ(TurnAngle(dt))) ELSE q

\* RotateRight turning the same way as RotateLeft (the minus sign missing)
RotateRightSameSign(q, f, dt) ==
    IF Pressed(f, "RRIGHT") THEN QuatMul(q, FromRotationZ(TurnAngle(dt))) ELSE q

\* lines 173-176: the RRIGHT branch, -rotation_speed * time.delta_seconds()
RotateRight(q, f, dt) ==
    IF Pressed(f, "RRIGHT")
    THEN QuatMul(q, FromRotationZ(FMul(FNeg(rotation_speed), delta_seconds(dt))))
    ELSE q

\* lines 168-176: rotation handling
Rotate(q, f, dt) == RotateRight(RotateLeft(q, f, dt), f, dt)

\* lines 180-181: column.abs() * player_half_size
RotatedExtent(col) == VScale(VAbs(col), player_half_size)

\* Margin with the components of the extent summed instead of its length taken
MarginBySum(col) ==
    LET e == RotatedExtent(col)
    IN FAdd(FAdd(e.x, e.y), e.z)

\* rotated_x_extent.length() and rotated_y_extent.length(), as they enter the
\* clamp bounds
Margin(col) == Length(RotatedExtent(col))

MarginX(q) == Margin(Mat3FromQuat(q).x_axis)

MarginY(q) == Margin(Mat3FromQuat(q).y_axis)

\* lines 138-139: window.resolution.width() / 2.0
HalfWidth(win) == FDiv(FromInt(win.width), Two)

HalfHeight(win) == FDiv(FromInt(win.height), Two)

\* the bounds handed to f32::clamp: -half + length and half - length
ClampMin(half, len) == FAdd(FNeg(half), len)

ClampMax(half, len) == FSub(half, len)

\* f32::clamp asserts min <= max and panics otherwise
ClampPanics(min, max) == ~FLe(min, max)

\* f32::clamp, once min <= max
Clamp(v, min, max) == IF FLt(v, min) THEN min ELSE IF FLt(max, v) THEN max ELSE v

\* the four bounds of lines 184-191 from the half sizes and the two extent
\* lengths mx, my
ClampBounds(hw, hh, mx, my) ==
    [xmin |-> ClampMin(hw, mx), xmax |-> ClampMax(hw, mx),
     ymin |-> ClampMin(hh, my), ymax |-> ClampMax(hh, my)]

\* the bounds in the window win for the extent lengths mg
Bounds(win, mg) == ClampBounds(HalfWidth(win), HalfHeight(win), mg.x, mg.y)

\* lines 184-195 with the bounds b in hand: the clamp for x is evaluated
\* first, then the one for y, and only then is the translation written.  A
\* panic in either clamp leaves the translation and rotation written at lines
\* 166-176.
ClampStep(moved, rot, b) ==
    IF ClampPanics(b.xmin, b.xmax) \/ ClampPanics(b.ymin, b.ymax)
    THEN [translation |-> moved, rotation |-> rot, panic |-> TRUE]
    ELSE [translation |-> [x |-> Clamp(moved.x, b.xmin, b.xmax),
                           y |-> Clamp(moved.y, b.ymin, b.ymax),
                           z |-> moved.z],
          rotation |-> rot, panic |-> FALSE]

\* lines 180-190: the lengths of the two rotated extents, the rotation matrix
\* of line 179 in hand
MarginsOf(rotation_matrix) ==
    [x |-> Margin(rotation_matrix.x_axis), y |-> Margin(rotation_matrix.y_axis)]

\* lines 179-190 on the turned rotation
Margins(rot) == MarginsOf(Mat3FromQuat(rot))

\* lines 178-195 on the moved and turned transform
ClampToWindow(moved, rot, win) == ClampStep(moved, rot, Bounds(win, Margins(rot)))

\* one run of the loop body (lines 144-195) on a transform: the transform it
\* leaves and whether it panicked
Advance(t, q, win, f, dt) ==
    ClampToWindow(Translate(t, f, dt), Rotate(q, f, dt), win)

\* the turn of a frame of dt / DtDen seconds in eighths of pi: rotation_speed
\* is four eighths of pi per second
TurnEighths(dt) == (4 * dt) \div DtDen

\* signed turn of one frame, in eighths of pi: + for RLEFT, - for RRIGHT
SignedTurn(f, dt) ==
    (IF Pressed(f, "RLEFT") THEN TurnEighths(dt) ELSE 0)
    - (IF Pressed(f, "RRIGHT") THEN TurnEighths(dt) ELSE 0)

---------------------------------------------------------------------------
(* The state machine *)

\* the value of last when the latest step was not a frame
NoInput == [flags |-> {}, dt |-> 0]

\* the value of margin before the first frame
NoMargin == [x |-> FZero, y |-> FZero]

\* the value of bounds when the latest step was not a frame
NoBounds == [xmin |-> FZero, xmax |-> FZero, ymin |-> FZero, ymax |-> FZero]

\* setup: the player at the origin with the identity rotation, in the default
\* window; no frame has run
Init ==
    /\ translation = ZERO
    /\ rotation = IDENTITY
    /\ window = DefaultWindow
    /\ panicked = FALSE
    /\ clamped = FALSE
    /\ margin = NoMargin
    /\ bounds = NoBounds
    /\ last = NoInput
    /\ turned = 0
    /\ ticks = 0

\* one frame: move_player_system with held actions move \cup turn and frame
\* time dt.  The turned rotation rot, the extent lengths mg and the bounds b
\* do not depend on the linear actions.
\* panicked: a clamp's assertion failed and the program has stopped.
\* clamped: the transform is the one lines 194-195 wrote under this window.
\* margin: rotated_x_extent.length() and rotated_y_extent.length() of the
\*   latest frame.
\* bounds: the arguments of the two clamps of the frame, while no resize has
\*   followed it.
\* last: the inputs of the frame, while no resize has followed it.
\* turned: the sum of the signed turn angles of all frames.
Tick ==
    /\ ~panicked
    /\ ticks < MaxTicks
    /\ \E dt \in Dts, turn \in SUBSET TurnActions :
         \E rot \in {Rotate(rotation, turn, dt)} :
           \E mg \in {Margins(rot)} :
             \E b \in {Bounds(window, mg)} :
               \E move \in SUBSET MoveActions :
                 \E r \in {ClampStep(Translate(translation, move \cup turn, dt), rot, b)} :
                    /\ translation' = r.translation
                    /\ rotation' = r.rotation
                    /\ panicked' = r.panic
                    /\ clamped' = ~r.panic
                    /\ margin' = mg
                    /\ bounds' = b
                    /\ last' = [flags |-> move \cup turn, dt |-> dt]
                    /\ turned' = turned + SignedTurn(turn, dt)
    /\ ticks' = ticks + 1
    /\ UNCHANGED window

\* the window is resized between frames; the transform is not touched
Resize ==
    /\ ~panicked
    /\ \E win \in WindowSizes :
          /\ win # window
          /\ window' = win
    /\ clamped' = FALSE
    /\ bounds' = NoBounds
    /\ last' = NoInput
    /\ UNCHANGED <<translation, rotation, panicked, margin, turned, ticks>>

Next == Tick \/ Resize

Spec == Init /\ [][Next]_vars

---------------------------------------------------------------------------
(* Vocabulary of the properties *)

\* the step is a frame (a run of move_player_system)
TickStep == ticks' = ticks + 1

\* 2^-10: what counts as equal to within the rounding of the f32 arithmetic
Tol == [m |-> Hidden, e |-> -33]

\* a and b are equal to within Tol
Near(a, b) == FLe(FAbs(FSub(a, b)), Tol)

\* the centre t lies within the bounds b
Within(t, b) ==
    /\ FLe(b.xmin, t.x) /\ FLe(t.x, b.xmax)
    /\ FLe(b.ymin, t.y) /\ FLe(t.y, b.ymax)

\* a clamp interval of b is inverted
Inverted(b) == ClampPanics(b.xmin, b.xmax) \/ ClampPanics(b.ymin, b.ymax)

\* half the width and height of the axis-aligned bounding box of the square
\* with half side player_half_size turned by the matrix m: the corners are
\* the centre +- x_axis * half +- y_axis * half
BoxHalfWidth(m) ==
    FMul(FAdd(FAbs(m.x_axis.x), FAbs(m.y_axis.x)), player_half_size)

BoxHalfHeight(m) ==
    FMul(FAdd(FAbs(m.x_axis.y), FAbs(m.y_axis.y)), player_half_size)

\* the bounding box of the player lies inside the window, to within Tol
BoxInside(t, m, win) ==
    /\ FLe(FAdd(FAbs(t.x), BoxHalfWidth(m)), FAdd(HalfWidth(win), Tol))
    /\ FLe(FAdd(FAbs(t.y), BoxHalfHeight(m)), FAdd(HalfHeight(win), Tol))

BoxInsideWindow(t, q, win) == BoxInside(t, Mat3FromQuat(q), win)

\* the unit direction u separates the player's square from the obstacle's
\* axis-aligned square centred at o; rp is the player's radius along u
Separates(u, rp, t, o) ==
    LET dist == FAbs(FAdd(FMul(FSub(o.x, t.x), u.x), FMul(FSub(o.y, t.y), u.y)))
        ro == FMul(obstacle_half_size, FAdd(FAbs(u.x), FAbs(u.y)))
    IN FLe(FAdd(rp, ro), dist)

\* the player's square, turned by the matrix m, and the obstacle's square
\* share interior points (separating-axis test on the axes of both squares)
OverlapsWith(t, m, o) ==
    /\ ~Separates([x |-> One, y |-> FZero], BoxHalfWidth(m), t, o)
    /\ ~Separates([x |-> FZero, y |-> One], BoxHalfHeight(m), t, o)
    /\ ~Separates(m.x_axis, player_half_size, t, o)
    /\ ~Separates(m.y_axis, player_half_size, t, o)

Overlaps(t, q, o) == OverlapsWith(t, Mat3FromQuat(q), o)

\* an f32 of magnitude at most 1 in 1/1024, truncated
Fix(a) ==
    IF a.m = 0 \/ a.e < -40 THEN 0
    ELSE IF a.e >= -10 THEN a.m * 2^(a.e + 10)
    ELSE Signed(a.m < 0, Abs(a.m) \div 2^(-(a.e + 10)))

\* sine and cosine of half the turn by k eighths of pi, k in 0..15, in 1/1024
HalfTurnSin == Tabulated([k \in 0 .. 15 |-> Fix(SinCosTable[k + 1].sin)], 0 .. 15)

HalfTurnCos == Tabulated([k \in 0 .. 15 |-> Fix(SinCosTable[k + 1].cos)], 0 .. 15)

\* the rotation q is, to within 4/1024, the rotation about Z by k eighths of
\* pi (q and -q are the same rotation)
IsTurn(q, k) ==
    \/ Abs(Fix(q.z) - HalfTurnSin[k]) + Abs(Fix(q.w) - HalfTurnCos[k]) <= 4
    \/ Abs(Fix(q.z) + HalfTurnSin[k]) + Abs(Fix(q.w) + HalfTurnCos[k]) <= 4

\* the angle about Z of the rotation q, in eighths of pi, in 0..15
ZAngle(q) == CHOOSE k \in 0 .. 15 : IsTurn(q, k)

---------------------------------------------------------------------------
(* C1 -- clamp containment *)

\* C1: after every frame the axis-aligned bounding box of the player's turned
\* 50x50 square lies inside [-half_width, half_width] x
\* [-half_height, half_height], at every orientation.
ClampContainment == clamped => BoxInsideWindow(translation, rotation, window)

---------------------------------------------------------------------------
(* C2 -- degenerate bounds *)

\* C2: when the window's half-width or half-height is smaller than the extent
\* used for clamping (the lower clamp bound exceeds the upper one), a frame
\* still completes without a panic and leaves the player at the arena centre
\* on that axis.
DegenerateBoundsHandled ==
    /\ Inverted(bounds) => ~panicked /\ clamped
    /\ ClampPanics(bounds.xmin, bounds.xmax) => translation.x = FZero
    /\ ClampPanics(bounds.ymin, bounds.ymax) => translation.y = FZero

---------------------------------------------------------------------------
(* C3 -- obstacles *)

\* C3: in every state reachable from the initial scene the player's square
\* does not intersect any obstacle's square.
NoObstacleOverlap ==
    \A o \in Obstacles : ~Overlaps(translation, rotation, o)

---------------------------------------------------------------------------
(* C4 -- a frame with no action held *)

---------------------------------------------------------------------------
(* C5 -- a frame of zero duration *)

---------------------------------------------------------------------------
(* C6 -- direction normalisation *)

\* the distance covered in a frame of dt at full speed, speed * dt
FullStep == Tabulated([dt \in Dts |-> FMul(speed, delta_seconds(dt))], Dts)

\* the distance covered in a frame of dt with UP alone held
UpStep == Tabulated([dt \in Dts |-> Length(DisplacementOf[dt][{"UP"}])], Dts)

\* the combinations of actions whose composed direction is not zero
Moving == {f \in Flags : RawDirection(f) # ZERO}

\* the distance between two positions
Distance(a, b) ==
    Length([x |-> FSub(b.x, a.x), y |-> FSub(b.y, a.y), z |-> FSub(b.z, a.z)])

\* C6: in every frame whose move, before clamping, stays inside the clamp
\* bounds, the player covers the distance speed * dt (to within Tol) whenever
\* the composed direction is not zero, with one axis active or both; holding
\* UP and RIGHT covers the same distance as holding UP alone.
DirectionNormalization ==
    [][(/\ TickStep
        /\ last'.flags \in Moving
        /\ Within(Translate(translation, last'.flags, last'.dt), bounds'))
       => \E d \in {Distance(translation, translation')} :
             /\ Near(d, FullStep[last'.dt])
             /\ Near(d, UpStep[last'.dt])
      ]_vars

\* UP and RIGHT were held for one second from the origin and the clamp left
\* the move alone: the player is 200 px from the origin, on the diagonal
DirectionNormalizationWitness ==
    /\ ticks = 1 /\ clamped
    /\ last = [flags |-> {"UP", "RIGHT"}, dt |-> DtDen]
    /\ translation.x = translation.y /\ FLt(FZero, translation.x)
    /\ Near(Distance(ZERO, translation), FromInt(200))

---------------------------------------------------------------------------
(* C7 -- opposite actions cancel *)

\* C7: in a frame with UP and DOWN both held the translation along y before
\* clamping is zero, with LEFT and RIGHT both held the one along x is zero,
\* whatever the frame time and the other actions; with all four held the
\* direction is the zero vector and it is not normalised.
OppositeFlagCancellation ==
    [][TickStep =>
         \E b \in {bounds'} :
          /\ ({"UP", "DOWN"} \subseteq last'.flags)
                => /\ Translate(translation, last'.flags, last'.dt).y = translation.y
                   /\ (FLe(b.ymin, translation.y) /\ FLe(translation.y, b.ymax))
                         => translation'.y = translation.y
          /\ ({"LEFT", "RIGHT"} \subseteq last'.flags)
                => /\ Translate(translation, last'.flags, last'.dt).x = translation.x
                   /\ (FLe(b.xmin, translation.x) /\ FLe(translation.x, b.xmax))
                         => translation'.x = translation.x
          /\ (MoveActions \subseteq last'.flags)
                => /\ Length(RawDirection(last'.flags)) = FZero
                   /\ Direction(last'.flags) = ZERO
      ]_vars

\* UP, DOWN and RIGHT were held for one second from the origin: the player
\* moved 200 px along x and not at all along y
OppositeFlagWitness ==
    /\ ticks = 1 /\ clamped
    /\ last = [flags |-> {"UP", "DOWN", "RIGHT"}, dt |-> DtDen]
    /\ translation = [x |-> FromInt(200), y |-> FZero, z |-> FZero]

---------------------------------------------------------------------------
(* C8 -- rotation sign *)

---------------------------------------------------------------------------
(* C9 -- the planar frame *)

\* the quaternion q is a rotation about the Z axis: no x or y component, and
\* of unit length to within Tol
AboutZ(q) ==
    /\ q.x = FZero /\ q.y = FZero
    /\ Near(FAdd(FMul(q.z, q.z), FMul(q.w, q.w)), One)

---------------------------------------------------------------------------
(* C10 -- the clamp margin *)

\* half_width - 25 and half_height - 25
RightBound(win) == FSub(HalfWidth(win), player_half_size)

TopBound(win) == FSub(HalfHeight(win), player_half_size)

====
